---- MODULE Spec2Model ----
(***************************************************************************)
(* Model of the Groww mutual-fund scraper (src/get_mutual_fund_details.py):*)
(* the field extractors of FundScraper as operators over a small document  *)
(* model, record assembly (_parse_data, scrape_url), and the worker pool   *)
(* of main() as a state machine.                                            *)
(*                                                                         *)
(* Text is modelled as a sequence of tokens.  A token is one character     *)
(* ("H", "h", "d", " ", "1", ",") or one of the fixed labels the code      *)
(* searches for ("Fund Size", "Cr", ...), which are kept atomic.  The      *)
(* token "Rs" stands for the rupee sign.                                    *)
(***************************************************************************)
EXTENDS Naturals, Integers, Sequences, FiniteSets, TLC

VARIABLES
    threads,        \* ids of the worker threads main() started
    chrome,         \* per worker: how its browser session behaves
    pages,          \* url -> the document the rendering collaborator serves
    url_queue,      \* queue.Queue of urls still to be pulled
    unfinished,     \* url_queue.unfinished_tasks
    pc,             \* per worker: position in worker_wrapper / worker
    cur,            \* per worker: url being processed (NoUrl when none)
    driver,         \* per worker: FundScraper.driver state
    quit_calls,     \* per worker: number of driver.quit() calls
    local_results,  \* per worker: worker_wrapper's local_results
    local_failed,   \* per worker: worker_wrapper's local_failed
    put_idx,        \* per worker: position of "for r in local_results"
    results_queue,  \* main's results_queue
    failed_list,    \* main's failed_list
    main_pc,        \* main: "joining" until every thread has ended
    aum_in,         \* input of one _extract_aum call
    aum_out,        \* its result (Pending before the call)
    sheet_writes,   \* main: the df.to_excel calls made, in order
    call_in,        \* input of one call of another extractor
    call_out,       \* its result (Pending before the call)
    scroll_pc,      \* _scroll_page: position ("idle" when not called)
    last_height,    \* _scroll_page: last_height
    heights         \* the latest heights the page reported, oldest first

vars == <<threads, chrome, pages, url_queue, unfinished, pc, cur, driver,
          quit_calls, local_results, local_failed, put_idx, results_queue,
          failed_list, main_pc, aum_in, aum_out,
                   sheet_writes, call_in, call_out, scroll_pc,
                   last_height, heights>>

poolVars == <<threads, chrome, pages, url_queue, unfinished, pc, cur, driver,
              quit_calls, local_results, local_failed, put_idx,
              results_queue, failed_list, main_pc, sheet_writes>>

callVars == <<call_in, call_out>>

scrollVars == <<scroll_pc, last_height, heights>>

----------------------------------------------------------------------------
(* Bounds of the model *)

NumWorkers == 2
NumUrls == 2
MaxRows == 2
MaxLive == 2
MaxHeight == 4
MaxPolls == 4

----------------------------------------------------------------------------
(* Text *)

\* Python None, where the code can see it (a missing element, a failed call).
PyNone == <<"<None>">>

\* The sentinel "NA".
NA == <<"NA">>

\* The placeholder "Unknown" of _extract_managers.
Unknown == <<"Unknown">>

Whitespace == {" ", "\n"}

Digits == {"1", "2"}

\* The characters of the class [\d,.] of the AUM pattern.
NumericChars == Digits \cup {",", "."}

\* str.lower() on one token.
LowerTok(c) ==
    CASE c = "H" -> "h"
      [] c \in {"Fund Size", "Fund size", "FUND SIZE"} -> "fund size"
      [] c \in {"Cr", "CR"} -> "cr"
      [] OTHER -> c

\* str.lower()
Lower(t) == [i \in 1..Len(t) |-> LowerTok(t[i])]

\* str.replace(old, new) for a one-token `old`; `new` is a text.
RECURSIVE Replace(_, _, _)
Replace(t, old, new) ==
    IF t = <<>> THEN <<>>
    ELSE (IF Head(t) = old THEN new ELSE <<Head(t)>>)
         \o Replace(Tail(t), old, new)

\* str.replace(' ', ''): the space inside a lower-cased label goes too.
RemoveSpaces(t) ==
    Replace(Replace(t, " ", <<>>), "fund size", <<"fundsize">>)

\* str.strip()
RECURSIVE LStrip(_)
LStrip(t) ==
    IF t # <<>> /\ Head(t) \in Whitespace THEN LStrip(Tail(t)) ELSE t

RECURSIVE RStrip(_)
RStrip(t) ==
    IF t # <<>> /\ t[Len(t)] \in Whitespace
    THEN RStrip(SubSeq(t, 1, Len(t) - 1)) ELSE t

Strip(t) == RStrip(LStrip(t))

\* needle in hay
Contains(hay, needle) ==
    \E i \in 0..(Len(hay) - Len(needle)) :
        SubSeq(hay, i + 1, i + Len(needle)) = needle

\* any(c.isdigit() for c in val)
HasDigit(t) == \E i \in 1..Len(t) : t[i] \in Digits

\* Index of the first occurrence of token c in t at or after `from`, else 0.
RECURSIVE IndexFrom(_, _, _)
IndexFrom(t, c, from) ==
    IF from > Len(t) THEN 0
    ELSE IF t[from] = c THEN from
    ELSE IndexFrom(t, c, from + 1)

\* str.split(sep)[1] for a one-token sep that occurs in t: the text between
\* the first occurrence of sep and the next one (or the end).
SplitSecond(t, sep) ==
    LET a == IndexFrom(t, sep, 1)
        b == IndexFrom(t, sep, a + 1)
    IN  SubSeq(t, a + 1, IF b = 0 THEN Len(t) ELSE b - 1)

\* sep.join(ts)
RECURSIVE Join(_, _)
Join(sep, ts) ==
    IF ts = <<>> THEN <<>>
    ELSE IF Len(ts) = 1 THEN Head(ts)
    ELSE Head(ts) \o sep \o Join(sep, Tail(ts))

----------------------------------------------------------------------------
(* Document model: a table is a sequence of rows (tr), a row a sequence of *)
(* cells, a cell a tag ("th" or "td") with its text.                       *)

Cell(tag, text) == [tag |-> tag, text |-> text]

Th(text) == Cell("th", text)

Td(text) == Cell("td", text)

\* table.text
RECURSIVE RowText(_)
RowText(row) ==
    IF row = <<>> THEN <<>> ELSE Head(row).text \o RowText(Tail(row))

RECURSIVE TableText(_)
TableText(table) ==
    IF table = <<>> THEN <<>>
    ELSE RowText(Head(table)) \o TableText(Tail(table))

\* [th.text.strip() for th in table.find_all('th')]
RECURSIVE RowHeaders(_)
RowHeaders(row) ==
    IF row = <<>> THEN <<>>
    ELSE (IF Head(row).tag = "th" THEN <<Strip(Head(row).text)>> ELSE <<>>)
         \o RowHeaders(Tail(row))

RECURSIVE TableHeaders(_)
TableHeaders(table) ==
    IF table = <<>> THEN <<>>
    ELSE RowHeaders(Head(table)) \o TableHeaders(Tail(table))

\* row.find(tag): the first cell of the row with that tag, else PyNone.
RECURSIVE RowFind(_, _)
RowFind(row, tag) ==
    IF row = <<>> THEN PyNone
    ELSE IF Head(row).tag = tag THEN Head(row).text
    ELSE RowFind(Tail(row), tag)

\* [c.text.strip() for c in row.find_all(['td', 'th'])]
ColTexts(row) == [i \in 1..Len(row) |-> Strip(row[i].text)]

----------------------------------------------------------------------------
(* _extract_aum, method 1: the table search *)

FundSizeLabelIn(t) ==
    Contains(t, <<"Fund Size">>) \/ Contains(t, <<"Fund size">>)

\* The loop over enumerate(headers): the first header holding the label,
\* counted from 1; 0 where the code keeps -1.
RECURSIVE FundSizeIdxFrom(_, _)
FundSizeIdxFrom(headers, i) ==
    IF i > Len(headers) THEN 0
    ELSE IF FundSizeLabelIn(headers[i]) THEN i
    ELSE FundSizeIdxFrom(headers, i + 1)

FundSizeIdx(headers) == FundSizeIdxFrom(headers, 1)

NormName(t) == RemoveSpaces(Lower(t))

\* norm_row_name in norm_fund_name or norm_fund_name in norm_row_name
NameMatches(row_name, fund_name) ==
    \/ Contains(NormName(fund_name), NormName(row_name))
    \/ Contains(NormName(row_name), NormName(fund_name))

\* RowValue without the test for a digit in the cell.
RowValueAnyText(cols, idx, fund_name) ==
    IF cols = <<>> THEN PyNone
    ELSE IF ~NameMatches(Strip(cols[1].text), fund_name) THEN PyNone
    ELSE IF ~(Len(cols) > idx - 1) THEN PyNone
    ELSE Strip(cols[idx].text)

\* The body of "for row in rows": the value the row returns, else PyNone.
RowValue(cols, idx, fund_name) ==
    IF cols = <<>> THEN PyNone
    ELSE IF ~NameMatches(Strip(cols[1].text), fund_name) THEN PyNone
    ELSE IF ~(Len(cols) > idx - 1) THEN PyNone
    ELSE LET val == Strip(cols[idx].text)
         IN  IF HasDigit(val) THEN val ELSE PyNone

RECURSIVE ScanRows(_, _, _)
ScanRows(rows, idx, fund_name) ==
    IF rows = <<>> THEN PyNone
    ELSE LET v == RowValue(Head(rows), idx, fund_name)
         IN  IF v # PyNone THEN v
             ELSE ScanRows(Tail(rows), idx, fund_name)

\* One labelled table: the value its rows return, else PyNone.
TableValue(table, fund_name) ==
    LET idx == FundSizeIdx(TableHeaders(table))
    IN  IF idx = 0 THEN PyNone ELSE ScanRows(table, idx, fund_name)

\* TableStrategy that stops after the first labelled table.
TableStrategyFirstOnly(tables, fund_name, raises) ==
    LET at == {t \in 1..Len(tables) : FundSizeLabelIn(TableText(tables[t]))}
    IN  IF at = {} \/ raises THEN PyNone
        ELSE TableValue(tables[CHOOSE t \in at : \A u \in at : t <= u],
                        fund_name)

\* "for table in tables".  `raises` says that parsing the next labelled
\* table raises inside the try block: the handler logs it and the loop
\* goes on with the tables that follow.
RECURSIVE TableStrategy(_, _, _)
TableStrategy(tables, fund_name, raises) ==
    IF tables = <<>> THEN PyNone
    ELSE IF ~FundSizeLabelIn(TableText(Head(tables)))
    THEN TableStrategy(Tail(tables), fund_name, raises)
    ELSE IF raises THEN TableStrategy(Tail(tables), fund_name, FALSE)
    ELSE LET v == TableValue(Head(tables), fund_name)
         IN  IF v # PyNone THEN v
             ELSE TableStrategy(Tail(tables), fund_name, FALSE)

----------------------------------------------------------------------------
(* _extract_aum, method 2: the scan of the live document.  A live element  *)
(* is [text, content, parent]: elem.text, elem.get_attribute(textContent)  *)
(* and the parent's pair <<text, content>>, or <<>> when the parent lookup *)
(* raises.                                                                 *)

\* End of the longest run of tokens of `class` that starts at i (i - 1 when
\* t[i] is not in the class).
RECURSIVE RunEnd(_, _, _)
RunEnd(t, i, class) ==
    IF i <= Len(t) /\ t[i] \in class THEN RunEnd(t, i + 1, class) ELSE i - 1

\* (?:Rs\s?)?[\d,.]+\s*cr anchored at i: the index of the match's last
\* token, 0 when there is no match at i.
MatchEndAt(t, i) ==
    LET s == IF t[i] = "Rs"
             THEN (IF i + 1 <= Len(t) /\ t[i + 1] \in Whitespace
                   THEN i + 2 ELSE i + 1)
             ELSE i
        n == RunEnd(t, s, NumericChars)
        w == RunEnd(t, n + 1, Whitespace)
    IN  IF n >= s /\ w + 1 <= Len(t) /\ t[w + 1] = "cr" THEN w + 1 ELSE 0

\* re.search: the leftmost match, as <<first, last>>; <<>> when none.
RECURSIVE SearchFrom(_, _)
SearchFrom(t, i) ==
    IF i > Len(t) THEN <<>>
    ELSE IF MatchEndAt(t, i) # 0 THEN <<i, MatchEndAt(t, i)>>
    ELSE SearchFrom(t, i + 1)

\* val.replace(rupee, '').replace('Cr', '').replace('CR', '')
\*    .replace('cr', '').strip()
CleanAum(val) ==
    Strip(Replace(Replace(Replace(Replace(val, "Rs", <<>>), "Cr", <<>>),
                          "CR", <<>>), "cr", <<>>))

\* The body of "for text in texts_to_check": the value the text returns,
\* else PyNone.
CandidateValue(text) ==
    IF text = PyNone \/ text = <<>> THEN PyNone
    ELSE LET norm_text == Replace(Replace(Lower(text), "\n", <<" ">>),
                                  "\r", <<>>)
         IN  IF ~Contains(norm_text, <<"fund size">>) THEN PyNone
             ELSE LET after_label == SplitSecond(norm_text, "fund size")
                      m == SearchFrom(after_label, 1)
                  IN  IF m = <<>> THEN PyNone
                      ELSE CleanAum(SubSeq(after_label, m[1], m[2]))

TextsToCheck(elem) == <<elem.text, elem.content>> \o elem.parent

RECURSIVE ScanTexts(_)
ScanTexts(texts) ==
    IF texts = <<>> THEN PyNone
    ELSE LET v == CandidateValue(Head(texts))
         IN  IF v # PyNone THEN v ELSE ScanTexts(Tail(texts))

\* "for elem in target_elems"
RECURSIVE TextScan(_)
TextScan(elems) ==
    IF elems = <<>> THEN PyNone
    ELSE LET v == ScanTexts(TextsToCheck(Head(elems)))
         IN  IF v # PyNone THEN v ELSE TextScan(Tail(elems))

\* ExtractAum with the scan of the live document before the table search.
ExtractAumScanFirst(tables, fund_name, live, fault) ==
    LET m2 == IF fault = "aum_scan" THEN PyNone ELSE TextScan(live)
    IN  IF m2 # PyNone THEN m2
        ELSE LET m1 == TableStrategy(tables, fund_name, fault = "aum_table")
             IN  IF m1 # PyNone THEN m1 ELSE NA

\* _extract_aum(tables, fund_name) with the live document `live`.  fault is
\* "aum_table" when parsing a labelled table raises, "aum_scan" when the
\* live query raises (method 2's handler logs it and NA is returned).
ExtractAum(tables, fund_name, live, fault) ==
    LET m1 == TableStrategy(tables, fund_name, fault = "aum_table")
    IN  IF m1 # PyNone THEN m1
        ELSE LET m2 == IF fault = "aum_scan" THEN PyNone ELSE TextScan(live)
             IN  IF m2 # PyNone THEN m2 ELSE NA

----------------------------------------------------------------------------
(* Python dicts with text keys: functions over a finite set of keys *)

EmptyDict == <<>>

\* d[k] = v
DictSet(d, k, v) == (k :> v) @@ d

\* d.get(k, default)
DictGet(d, k, default) == IF k \in DOMAIN d THEN d[k] ELSE default

----------------------------------------------------------------------------
(* _extract_expense_and_load.  A heading block (div.mf320Heading) is       *)
(* [text, h3, p]: its whole text, and the text of its first h3 and first p *)
(* (PyNone when it has none).                                              *)

RECURSIVE ExpenseAndLoadFrom(_, _)
ExpenseAndLoadFrom(headings, data) ==
    IF headings = <<>> THEN data
    ELSE LET div == Head(headings)
             d1 == IF Contains(div.text, <<"Expense Ratio">>)
                      /\ Contains(div.text, <<":">>)
                   THEN DictSet(data, "Expense Ratio",
                                Strip(Replace(SplitSecond(div.text, ":"),
                                              "Inclusive of GST", <<>>)))
                   ELSE data
             d2 == IF div.h3 # PyNone /\ Contains(div.h3, <<"Exit load">>)
                   THEN DictSet(d1, "Exit Load",
                                IF div.p # PyNone THEN Strip(div.p) ELSE NA)
                   ELSE d1
         IN  ExpenseAndLoadFrom(Tail(headings), d2)

ExtractExpenseAndLoad(headings, data) ==
    ExpenseAndLoadFrom(headings,
        DictSet(DictSet(data, "Expense Ratio", NA), "Exit Load", NA))

----------------------------------------------------------------------------
(* _extract_benchmark *)

RECURSIVE BenchmarkInRows(_)
BenchmarkInRows(rows) ==
    IF rows = <<>> THEN PyNone
    ELSE LET th == RowFind(Head(rows), "th")
             td == RowFind(Head(rows), "td")
         IN  IF th # PyNone /\ td # PyNone
                /\ Contains(th, <<"Fund benchmark">>)
             THEN Strip(td)
             ELSE BenchmarkInRows(Tail(rows))

RECURSIVE ExtractBenchmark(_)
ExtractBenchmark(tables) ==
    IF tables = <<>> THEN NA
    ELSE LET v == IF Contains(TableText(Head(tables)), <<"Fund benchmark">>)
                  THEN BenchmarkInRows(Head(tables))
                  ELSE PyNone
         IN  IF v # PyNone THEN v ELSE ExtractBenchmark(Tail(tables))

----------------------------------------------------------------------------
(* _extract_returns_and_rank *)

Periods == <<"1Y", "3Y", "5Y", "All">>

IsReturnsTable(table) ==
    \/ Contains(TableText(table), <<"Rank with in category">>)
    \/ Contains(TableText(table), <<"Category average">>)

\* The first returns table, as a one-element sequence; <<>> where the code
\* keeps returns_table = None.
RECURSIVE ReturnsTable(_)
ReturnsTable(tables) ==
    IF tables = <<>> THEN <<>>
    ELSE IF IsReturnsTable(Head(tables)) THEN <<Head(tables)>>
    ELSE ReturnsTable(Tail(tables))

\* target_dict of a row with first cell `label`: "none" when it stays None.
RowBucket(label, fund_name) ==
    IF Contains(label, <<"Fund returns">>) \/ Contains(label, fund_name)
    THEN "fund_returns"
    ELSE IF Contains(label, <<"Category average">>) THEN "category_averages"
    ELSE IF Contains(label, <<"Rank with in category">>)
    THEN "rank_within_category"
    ELSE "none"

\* FillBucket reading the cell one column to the left of the header's.
RECURSIVE FillBucketShifted(_, _, _, _)
FillBucketShifted(d, headers, col_texts, i) ==
    IF i > Len(headers) THEN d
    ELSE FillBucketShifted(IF i > 1 /\ i <= Len(col_texts)
                           THEN DictSet(d, headers[i], col_texts[i - 1]) ELSE d,
                           headers, col_texts, i + 1)

\* "for i, header in enumerate(headers)": i counts from 1 here.
RECURSIVE FillBucket(_, _, _, _)
FillBucket(d, headers, col_texts, i) ==
    IF i > Len(headers) THEN d
    ELSE FillBucket(IF i > 1 /\ i <= Len(col_texts)
                    THEN DictSet(d, headers[i], col_texts[i]) ELSE d,
                    headers, col_texts, i + 1)

\* "for row in rows": the three dicts, as a record keyed by bucket.
RECURSIVE ReturnsRows(_, _, _, _)
ReturnsRows(rows, headers, fund_name, dicts) ==
    IF rows = <<>> THEN dicts
    ELSE LET col_texts == ColTexts(Head(rows))
             b == IF col_texts = <<>> THEN "none"
                  ELSE RowBucket(col_texts[1], fund_name)
         IN  ReturnsRows(Tail(rows), headers, fund_name,
                 IF b = "none" THEN dicts
                 ELSE [dicts EXCEPT
                          ![b] = FillBucket(@, headers, col_texts, 1)])

RECURSIVE EmitPeriods(_, _, _)
EmitPeriods(data, dicts, i) ==
    IF i > Len(Periods) THEN data
    ELSE LET period == Periods[i]
             d1 == DictSet(data, period \o " Fund Return",
                       DictGet(dicts.fund_returns, <<period>>, NA))
             d2 == DictSet(d1, period \o " Category Avg",
                       DictGet(dicts.category_averages, <<period>>, NA))
             d3 == DictSet(d2, period \o " Rank",
                       DictGet(dicts.rank_within_category, <<period>>, NA))
         IN  EmitPeriods(d3, dicts, i + 1)

ExtractReturnsAndRank(tables, data) ==
    LET rt == ReturnsTable(tables)
        empty == [fund_returns |-> EmptyDict,
                  category_averages |-> EmptyDict,
                  rank_within_category |-> EmptyDict]
        dicts == IF rt = <<>> THEN empty
                 ELSE ReturnsRows(rt[1], TableHeaders(rt[1]),
                                  DictGet(data, "Fund Name", <<>>), empty)
    IN  EmitPeriods(data, dicts, 1)

----------------------------------------------------------------------------
(* _extract_ratios *)

RECURSIVE PeRows(_, _)
PeRows(rows, data) ==
    IF rows = <<>> THEN data
    ELSE LET texts == ColTexts(Head(rows))
         IN  PeRows(Tail(rows),
                 IF Len(texts) >= 2 /\ Contains(texts[1], <<"P/E Ratio">>)
                 THEN DictSet(data, "P/E Ratio", texts[2])
                 ELSE IF Len(texts) >= 2
                         /\ Contains(texts[1], <<"P/B Ratio">>)
                 THEN DictSet(data, "P/B Ratio", texts[2])
                 ELSE data)

RECURSIVE StatRows(_, _)
StatRows(rows, data) ==
    IF rows = <<>> THEN data
    ELSE LET header == RowFind(Head(rows), "th")
             value == RowFind(Head(rows), "td")
             h_text == Strip(header)
             v_text == Strip(value)
         IN  StatRows(Tail(rows),
                 IF header = PyNone \/ value = PyNone THEN data
                 ELSE IF Contains(h_text, <<"Alpha">>)
                 THEN DictSet(data, "Alpha", v_text)
                 ELSE IF Contains(h_text, <<"Beta">>)
                 THEN DictSet(data, "Beta", v_text)
                 ELSE IF Contains(h_text, <<"Sharpe">>)
                 THEN DictSet(data, "Sharpe", v_text)
                 ELSE IF Contains(h_text, <<"Sortino">>)
                 THEN DictSet(data, "Sortino", v_text)
                 ELSE data)

\* RatioTables reading the stats rows of every table that has "Alpha".
RECURSIVE RatioTablesAlphaOnly(_, _)
RatioTablesAlphaOnly(tables, data) ==
    IF tables = <<>> THEN data
    ELSE LET text == TableText(Head(tables))
             d1 == IF Contains(text, <<"P/E Ratio">>)
                   THEN PeRows(Head(tables), data) ELSE data
             d2 == IF Contains(text, <<"Alpha">>)
                   THEN StatRows(Head(tables), d1) ELSE d1
         IN  RatioTablesAlphaOnly(Tail(tables), d2)

RECURSIVE RatioTables(_, _)
RatioTables(tables, data) ==
    IF tables = <<>> THEN data
    ELSE LET text == TableText(Head(tables))
             d1 == IF Contains(text, <<"P/E Ratio">>)
                   THEN PeRows(Head(tables), data) ELSE data
             d2 == IF Contains(text, <<"Alpha">>) /\ Contains(text, <<"Beta">>)
                   THEN StatRows(Head(tables), d1) ELSE d1
         IN  RatioTables(Tail(tables), d2)

RatioKeys == <<"P/E Ratio", "P/B Ratio", "Alpha", "Beta", "Sharpe", "Sortino">>

RECURSIVE SetAll(_, _, _)
SetAll(data, keys, v) ==
    IF keys = <<>> THEN data
    ELSE SetAll(DictSet(data, Head(keys), v), Tail(keys), v)

ExtractRatios(tables, data) == RatioTables(tables, SetAll(data, RatioKeys, NA))

----------------------------------------------------------------------------
(* _extract_managers.  A manager card (div.fm982CardText) is [name,        *)
(* tenure]: the text of its name and tenure sub-elements, PyNone when the  *)
(* card has none.                                                          *)

ManagerEntry(m) ==
    LET n_text == IF m.name # PyNone THEN Strip(m.name) ELSE Unknown
        t_text == IF m.tenure # PyNone THEN Strip(m.tenure) ELSE Unknown
    IN  n_text \o <<" ", "(">> \o t_text \o <<")">>

ExtractManagers(cards, data) ==
    DictSet(data, "Fund Managers",
            Join(<<",", " ">>, [i \in 1..Len(cards) |-> ManagerEntry(cards[i])]))

----------------------------------------------------------------------------
(* _parse_data and scrape_url.  A document is what the rendering           *)
(* collaborator serves for one url:                                        *)
(*   load        "ok"; "error" when driver.get, the scroll or the page     *)
(*               source raises inside scrape_url's try; "escape" when an   *)
(*               exception leaves scrape_url                               *)
(*   live_name   text of the live identity element, PyNone when the wait   *)
(*               times out or raises                                       *)
(*   static_name text of h1.mfh239SchemeName in the parsed page, or PyNone *)
(*   pills       texts of the div.mfh239PillsContainer elements            *)
(*   tables, live, headings, managers   inputs of the extractors           *)
(*   fault       the extractor in which an exception is raised mid-parse,  *)
(*               "none" when there is none                                 *)

\* Faults raised where _parse_data has no handler around the extractor.
UnhandledFaults == {"expense", "benchmark", "returns", "ratios", "managers"}

\* Faults raised inside one of _extract_aum's own try blocks.
AumFaults == {"aum_table", "aum_scan"}

\* FundName with the empty string where no element is found.
FundNameEmptyDefault(doc) ==
    IF doc.live_name # PyNone THEN doc.live_name
    ELSE IF doc.static_name # PyNone THEN doc.static_name
    ELSE <<>>

\* FundName with the static h1 looked up before the live element.
FundNameStaticFirst(doc) ==
    IF doc.static_name # PyNone THEN doc.static_name
    ELSE IF doc.live_name # PyNone THEN doc.live_name
    ELSE NA

\* Lines 89-97: the live element's text, else the static h1, else NA.
FundName(doc) ==
    IF doc.live_name # PyNone THEN doc.live_name
    ELSE IF doc.static_name # PyNone THEN doc.static_name
    ELSE NA

\* FundType with None where there is no second pill.
FundTypeNoneDefault(doc) == IF Len(doc.pills) > 1 THEN doc.pills[2] ELSE PyNone

\* Lines 100-101.
FundType(doc) == IF Len(doc.pills) > 1 THEN doc.pills[2] ELSE NA

\* Whether an exception leaves _parse_data.
ParseRaises(doc) == doc.fault \in UnhandledFaults

\* "v = e" followed by the statements F(v): e is evaluated once.
Bind(e, F(_)) == CHOOSE r \in {F(v) : v \in {e}} : TRUE

\* The dict _parse_data returns when no exception leaves it.
ParseData(doc) ==
    Bind(DictSet(EmptyDict, "Fund Name", FundName(doc)), LAMBDA d0 :
    Bind(DictSet(d0, "Fund Type", FundType(doc)), LAMBDA d1 :
    Bind(DictSet(d1, "AUM", ExtractAum(doc.tables, d1["Fund Name"],
                                       doc.live, doc.fault)), LAMBDA d2 :
    Bind(ExtractExpenseAndLoad(doc.headings, d2), LAMBDA d3 :
    Bind(DictSet(d3, "Benchmark", ExtractBenchmark(doc.tables)), LAMBDA d4 :
    Bind(ExtractReturnsAndRank(doc.tables, d4), LAMBDA d5 :
    Bind(ExtractRatios(doc.tables, d5), LAMBDA d6 :
         ExtractManagers(doc.managers, d6))))))))

\* scrape_url's result: kind "record" with the dict, "none" for None,
\* "raise" when an exception leaves the call.
ScrapeUrl(doc, url) ==
    IF doc.load = "escape" THEN [kind |-> "raise", data |-> EmptyDict]
    ELSE IF doc.load = "error" \/ ParseRaises(doc)
    THEN [kind |-> "none", data |-> EmptyDict]
    ELSE [kind |-> "record", data |-> DictSet(ParseData(doc), "URL", <<url>>)]

\* "if result:" in worker: None and an empty dict are falsy.
Truthy(result) == result.kind = "record" /\ DOMAIN result.data # {}

----------------------------------------------------------------------------
(* The worker pool of main(): worker_wrapper, worker and the FundScraper   *)
(* context manager, one action per step between two points where another   *)
(* thread can run.                                                         *)

Workers == 1..NumWorkers

UrlNames == <<"u1", "u2", "u3", "u4">>

Urls == {UrlNames[i] : i \in 1..NumUrls}

NoUrl == "none"

\* How a worker's browser behaves: "ok"; "no_session" when webdriver.Chrome
\* raises in setup_driver; "quit_raises" when driver.quit() raises.
ChromeKinds == {"ok", "no_session", "quit_raises"}

\* A thread has ended: worker_wrapper returned, or an exception left it.
Ended(w) == pc[w] \in {"done", "raised"}

\* with FundScraper() as scraper: __init__, __enter__, setup_driver.
Enter(w) ==
    /\ w \in threads
    /\ pc[w] = "start"
    /\ IF chrome[w] = "no_session"
       THEN /\ pc' = [pc EXCEPT ![w] = "raised"]
            /\ UNCHANGED driver
       ELSE /\ pc' = [pc EXCEPT ![w] = "get"]
            /\ driver' = [driver EXCEPT ![w] = "open"]
    /\ UNCHANGED <<threads, chrome, pages, url_queue, unfinished, cur,
                   quit_calls, local_results, local_failed, put_idx,
                   results_queue, failed_list, main_pc, aum_in, aum_out,
                   sheet_writes, call_in, call_out, scroll_pc,
                   last_height, heights>>

\* url = url_queue.get(block=False), or break on queue.Empty.
QueueGet(w) ==
    /\ w \in threads
    /\ pc[w] = "get"
    /\ IF url_queue = <<>>
       THEN /\ pc' = [pc EXCEPT ![w] = "exit"]
            /\ UNCHANGED <<url_queue, cur>>
       ELSE /\ pc' = [pc EXCEPT ![w] = "scrape"]
            /\ cur' = [cur EXCEPT ![w] = Head(url_queue)]
            /\ url_queue' = Tail(url_queue)
    /\ UNCHANGED <<threads, chrome, pages, unfinished, driver, quit_calls,
                   local_results, local_failed, put_idx, results_queue,
                   failed_list, main_pc, aum_in, aum_out,
                   sheet_writes, call_in, call_out, scroll_pc,
                   last_height, heights>>

\* Collect with the else of "if result:" lost: the url is appended to the
\* failed list after every item.
CollectMissingElse(result, url, results, failed) ==
    <<IF result.kind # "raise" /\ Truthy(result)
      THEN Append(results, result.data) ELSE results,
      Append(failed, url)>>

\* Collect with the managers list kept from one item to the next.
CollectKeepingManagers(result, url, results, failed) ==
    IF result.kind # "raise" /\ Truthy(result)
    THEN <<Append(results,
                  IF results = <<>> THEN result.data
                  ELSE [result.data EXCEPT
                           !["Fund Managers"] =
                               results[Len(results)]["Fund Managers"] \o @]),
           failed>>
    ELSE <<results, Append(failed, url)>>

\* Lines 320-328: what one item adds to <<results_list, failed_list>>.
Collect(result, url, results, failed) ==
    IF result.kind # "raise" /\ Truthy(result)
    THEN <<Append(results, result.data), failed>>
    ELSE <<results, Append(failed, url)>>

\* AfterItem leaving the loop on a failed item.
AfterItemBreaksOnFailure(result) ==
    IF result.kind = "record" THEN "get" ELSE "exit"

\* Where the worker goes after an item: back to the head of "while True".
AfterItem(result) == "get"

\* The body of the loop after the get: scrape_url, the append, and the
\* finally clause (task_done and the pause).
Process(w) ==
    /\ w \in threads
    /\ pc[w] = "scrape"
    /\ \E result \in {ScrapeUrl(pages[cur[w]], cur[w])} :
       \E lists \in {Collect(result, cur[w], local_results[w],
                             local_failed[w])} :
           /\ local_results' = [local_results EXCEPT ![w] = lists[1]]
           /\ local_failed' = [local_failed EXCEPT ![w] = lists[2]]
           /\ pc' = [pc EXCEPT ![w] = AfterItem(result)]
    /\ unfinished' = unfinished - 1
    /\ cur' = [cur EXCEPT ![w] = NoUrl]
    /\ UNCHANGED <<threads, chrome, pages, url_queue, driver, quit_calls,
                   put_idx, results_queue, failed_list, main_pc, aum_in,
                   aum_out, sheet_writes, call_in, call_out, scroll_pc,
                   last_height, heights>>

\* QuitsOnExit with the test of self.driver inverted.
QuitsOnExitInverted(d) == d = "none"

\* FundScraper.__exit__: whether driver.quit() is called.
QuitsOnExit(d) == d # "none"

\* Leaving the with block after the break: __exit__.
Exit(w) ==
    /\ w \in threads
    /\ pc[w] = "exit"
    /\ IF QuitsOnExit(driver[w])
       THEN /\ quit_calls' = [quit_calls EXCEPT ![w] = @ + 1]
            /\ IF chrome[w] = "quit_raises"
               THEN /\ driver' = [driver EXCEPT ![w] = "unknown"]
                    /\ pc' = [pc EXCEPT ![w] = "raised"]
               ELSE /\ driver' = [driver EXCEPT ![w] = "closed"]
                    /\ pc' = [pc EXCEPT ![w] = "put"]
       ELSE /\ pc' = [pc EXCEPT ![w] = "put"]
            /\ UNCHANGED <<driver, quit_calls>>
    /\ UNCHANGED <<threads, chrome, pages, url_queue, unfinished, cur,
                   local_results, local_failed, put_idx, results_queue,
                   failed_list, main_pc, aum_in, aum_out,
                   sheet_writes, call_in, call_out, scroll_pc,
                   last_height, heights>>

\* worker_wrapper: one round of "for r in local_results: results_queue.put(r)".
PutResult(w) ==
    /\ w \in threads
    /\ pc[w] = "put"
    /\ IF put_idx[w] <= Len(local_results[w])
       THEN /\ results_queue' = Append(results_queue,
                                       local_results[w][put_idx[w]])
            /\ put_idx' = [put_idx EXCEPT ![w] = @ + 1]
            /\ UNCHANGED pc
       ELSE /\ pc' = [pc EXCEPT ![w] = "extend"]
            /\ UNCHANGED <<results_queue, put_idx>>
    /\ UNCHANGED <<threads, chrome, pages, url_queue, unfinished, cur, driver,
                   quit_calls, local_results, local_failed, failed_list,
                   main_pc, aum_in, aum_out,
                   sheet_writes, call_in, call_out, scroll_pc,
                   last_height, heights>>

\* worker_wrapper: with failed_lock: failed_list.extend(local_failed).
ExtendFailed(w) ==
    /\ w \in threads
    /\ pc[w] = "extend"
    /\ failed_list' = failed_list \o local_failed[w]
    /\ pc' = [pc EXCEPT ![w] = "done"]
    /\ UNCHANGED <<threads, chrome, pages, url_queue, unfinished, cur, driver,
                   quit_calls, local_results, local_failed, put_idx,
                   results_queue, main_pc, aum_in, aum_out,
                   sheet_writes, call_in, call_out, scroll_pc,
                   last_height, heights>>

\* main: "for t in threads: t.join()" has returned for every thread.
JoinAll ==
    /\ main_pc = "joining"
    /\ \A w \in threads : Ended(w)
    /\ main_pc' = "joined"
    /\ UNCHANGED <<threads, chrome, pages, url_queue, unfinished, pc, cur,
                   driver, quit_calls, local_results, local_failed, put_idx,
                   results_queue, failed_list, aum_in, aum_out,
                   sheet_writes, call_in, call_out, scroll_pc,
                   last_height, heights>>

\* The columns of main(): the fixed key set of a record.
Columns ==
    {"Fund Name", "Fund Type", "AUM",
     "1Y Fund Return", "1Y Category Avg", "1Y Rank",
     "3Y Fund Return", "3Y Category Avg", "3Y Rank",
     "5Y Fund Return", "5Y Category Avg", "5Y Rank",
     "All Fund Return", "All Category Avg", "All Rank",
     "P/E Ratio", "P/B Ratio", "Alpha", "Beta", "Sharpe", "Sortino",
     "Expense Ratio", "Exit Load", "Benchmark", "Fund Managers", "URL"}

\* Characters a sheet name keeps: fund_type[:31].
SheetNameLimit == 31

\* t[:n]
Take(t, n) == SubSeq(t, 1, IF Len(t) < n THEN Len(t) ELSE n)

\* sheet_name = fund_type[:31].replace('/', '-')
SheetName(fund_type) ==
    Replace(Take(fund_type, SheetNameLimit), "/", <<"-">>)

\* The loop "while not results_queue.empty()": data_by_fund_type as the
\* sequence of its items, [fund_type, data], in insertion order.
RECURSIVE GroupByFundType(_, _)
GroupByFundType(queue, groups) ==
    IF queue = <<>> THEN groups
    ELSE LET result == Head(queue)
             fund_type == DictGet(result, "Fund Type", <<"Others">>)
             at == {i \in 1..Len(groups) : groups[i].fund_type = fund_type}
         IN  GroupByFundType(Tail(queue),
                 IF at = {}
                 THEN Append(groups, [fund_type |-> fund_type,
                                      data |-> <<result>>])
                 ELSE [i \in 1..Len(groups) |->
                          IF i \in at
                          THEN [groups[i] EXCEPT !.data = Append(@, result)]
                          ELSE groups[i]])

\* df = pd.DataFrame(data) with the missing columns filled and df[columns].
Frame(data) ==
    [i \in 1..Len(data) |-> [col \in Columns |-> DictGet(data[i], col, NA)]]

\* main after the join: the grouping loop and one df.to_excel call for each
\* group, in the order of data_by_fund_type.
Save ==
    /\ main_pc = "joined"
    /\ main_pc' = "saved"
    /\ results_queue' = <<>>
    /\ \E groups \in {GroupByFundType(results_queue, <<>>)} :
          sheet_writes' =
              [i \in 1..Len(groups) |->
                  [sheet_name |-> SheetName(groups[i].fund_type),
                   fund_type |-> groups[i].fund_type,
                   rows |-> Frame(groups[i].data)]]
    /\ UNCHANGED <<threads, chrome, pages, url_queue, unfinished, pc, cur,
                   driver, quit_calls, local_results, local_failed, put_idx,
                   failed_list, aum_in, aum_out, call_in, call_out,
                   scroll_pc, last_height, heights>>

----------------------------------------------------------------------------
(* Documents the specifications draw their inputs from *)

Doc(load, ln, sn, pills, tables, live, headings, managers, fault) ==
    [load |-> load, live_name |-> ln, static_name |-> sn,
     pills |-> pills, tables |-> tables, live |-> live,
     headings |-> headings, managers |-> managers, fault |-> fault]

LiveElem(text, content, parent) ==
    [text |-> text, content |-> content, parent |-> parent]

SimilarFundsTable ==
    << <<Th(<<"Name">>), Th(<<"Fund Size">>)>>,
       <<Td(<<"x">>), Td(<<"Rs", "2", " ", "Cr">>)>>,
       <<Td(<<"H", " ", "d">>), Td(<<"Rs", "1", ",", "2", " ", "Cr">>)>> >>

BenchmarkTable ==
    << <<Th(<<"Fund benchmark">>), Td(<<" ", "Nifty">>)>> >>

ReturnsSampleTable ==
    << <<Th(<<>>), Th(<<"1Y">>), Th(<<"3Y">>)>>,
       <<Td(<<"Fund returns">>), Td(<<"1", "%">>), Td(<<"2", "%">>)>>,
       <<Td(<<"Category average">>), Td(<<"2", "%">>)>>,
       <<Td(<<"Rank with in category">>), Td(<<"1">>), Td(<<"2">>)>> >>

RatiosSampleTable ==
    << <<Th(<<"P/E Ratio">>), Td(<<"2">>)>>,
       <<Th(<<"Alpha">>), Td(<<"1">>)>>,
       <<Th(<<"Beta">>), Td(<<"2">>)>> >>

SampleTables ==
    <<SimilarFundsTable, BenchmarkTable, ReturnsSampleTable, RatiosSampleTable>>

FundSizeElem ==
    LiveElem(<<"Fund size">>, <<"Fund size">>,
             << <<"Fund size", "\n", "Rs", "1", ",", "2", "Cr">>,
                <<"Fund size", "Rs", "1", ",", "2", "Cr">> >>)

SampleHeadings ==
    << [text |-> <<"Expense Ratio", ":", " ", "1", "%", " ",
                   "Inclusive of GST">>,
        h3 |-> PyNone, p |-> PyNone],
       [text |-> <<"Exit load", "1", "%">>, h3 |-> <<"Exit load">>,
        p |-> <<"1", "%", " ">>] >>

SampleManagers ==
    << [name |-> <<"H">>, tenure |-> <<"1">>],
       [name |-> <<"d">>, tenure |-> PyNone] >>

\* A page with every field group present.
GoodPage ==
    Doc("ok", <<"H", "d">>, <<"H", "d">>, << <<"Equity">>, <<"Large Cap">> >>,
        SampleTables, <<FundSizeElem>>, SampleHeadings, SampleManagers,
        "none")

\* A page the browser fails to load.
ErrorPage == [GoodPage EXCEPT !.load = "error"]

\* A page on which an exception leaves scrape_url.
EscapePage == [GoodPage EXCEPT !.load = "escape"]

PoolPages == {GoodPage, ErrorPage, EscapePage}

\* The pages of the pool's urls: any of PoolPages for the first url, a page
\* that loads or fails to load for the others.
PoolAssignments ==
    {pg \in [Urls -> PoolPages] :
        \A u \in Urls \ {UrlNames[1]} : pg[u] # EscapePage}

\* Pages for one item: every field group present or absent, and every
\* place an exception can be raised.
ItemPages ==
    LET shapes ==
          { Doc("ok", ln, sn, pl, tb, lv, hd, mg, "none") :
              ln \in {PyNone, <<"H", "d">>},
              sn \in {PyNone, <<"H", " ", "d">>},
              pl \in { <<>>, << <<"Equity">> >>,
                       << <<"Equity">>, <<"Large Cap">> >> },
              tb \in { <<>>, SampleTables, <<BenchmarkTable>>,
                       <<ReturnsSampleTable, RatiosSampleTable>> },
              lv \in { <<>>, <<FundSizeElem>> },
              hd \in { <<>>, SampleHeadings, SubSeq(SampleHeadings, 1, 1) },
              mg \in { <<>>, SampleManagers } }
    IN  { [d EXCEPT !.fault = f] :
            d \in shapes, f \in {"none"} \cup AumFaults \cup UnhandledFaults }
        \cup { [d EXCEPT !.load = l] : d \in shapes, l \in {"error", "escape"} }

----------------------------------------------------------------------------
(* Inputs of _extract_aum *)

\* All sequences over S of length at most n.
RECURSIVE SeqsUpTo(_, _)
SeqsUpTo(S, n) ==
    IF n = 0 THEN {<<>>}
    ELSE LET shorter == SeqsUpTo(S, n - 1)
         IN  shorter \cup {Append(q, x) : q \in {r \in shorter : Len(r) = n - 1},
                                          x \in S}

AumFundNames == {<<"H", " ", "d">>, <<"d">>}

AumRowNames == {<<"h", "d">>, <<" ", "H", " ">>, <<"x">>}

AumCellValues == {<<"Rs", "1", " ", "Cr">>, <<" ", "2">>, <<"-">>}

\* Data rows: a name cell and a value cell, a name cell alone, an empty tr.
AumRows ==
    {<<Td(n), Td(v)>> : n \in AumRowNames, v \in AumCellValues}
    \cup {<<Td(<<"h", "d">>)>>, <<>>}

\* Header rows: the label in the second column; in the first; in a td only
\* (no header holds it); an empty first header and a digit in the label's.
AumHeaderRows ==
    { <<Th(<<"Name">>), Th(<<"Fund Size">>)>>,
      <<Th(<<"Fund size">>), Th(<<"Name">>)>>,
      <<Td(<<"Fund Size">>), Td(<<"Name">>)>>,
      <<Th(<<>>), Th(<<"Fund Size", " ", "1">>)>> }

AumTables ==
    {<<h>> \o rows : h \in AumHeaderRows, rows \in SeqsUpTo(AumRows, MaxRows)}

\* A table without the label, and labelled tables with and without an
\* accepted row for the fund names above.
PlainTable == << <<Th(<<"Name">>)>>, <<Td(<<"h", "d">>)>> >>

NoMatchTable ==
    << <<Th(<<"Name">>), Th(<<"Fund Size">>)>>, <<Td(<<"x">>), Td(<<"2">>)>> >>

MatchTable ==
    << <<Th(<<"Name">>), Th(<<"Fund Size">>)>>,
       <<Td(<<"h", "d">>), Td(<<"1", ",", "2">>)>> >>

AumTableLists ==
    { <<>>, <<PlainTable, NoMatchTable>>, <<NoMatchTable, MatchTable>>,
      <<MatchTable, NoMatchTable>> }

LiveTexts ==
    { <<"Fund size", "\n", "Rs", "1", ",", "2", "Cr">>,
      <<"Fund size", " ", "x">>,
      <<"Fund size", " ", "Fund size", "1", "cr">> }

LiveContents == {PyNone, <<"FUND SIZE", "Rs", " ", "2", " ", "CR", " ">>}

LiveParents ==
    { <<>>, << <<>>, <<"Fund Size", " ", "2", ".", "1", "\n", "Cr">> >> }

LiveElems ==
    {LiveElem(t, c, p) : t \in LiveTexts, c \in LiveContents, p \in LiveParents}

AumInput(tables, fund_name, live, fault) ==
    [tables |-> tables, fund_name |-> fund_name, live |-> live, fault |-> fault]

AumInputs ==
    { AumInput(<<t>>, n, <<FundSizeElem>>, "none") :
        t \in AumTables, n \in AumFundNames }
    \cup
    { AumInput(ts, <<"H", " ", "d">>, l, "none") :
        ts \in AumTableLists, l \in SeqsUpTo(LiveElems, MaxLive) }
    \cup
    { AumInput(ts, <<"H", " ", "d">>, l, f) :
        ts \in AumTableLists, l \in {<<>>, <<FundSizeElem>>}, f \in AumFaults }

Pending == <<"<pending>">>

\* No extractor call is modelled.
NoCall == [fn |-> "none"]

NoAumInput == AumInput(<<>>, NA, <<>>, "none")

\* One call of _extract_aum.
ApplyAum ==
    /\ aum_out = Pending
    /\ aum_out' = ExtractAum(aum_in.tables, aum_in.fund_name, aum_in.live,
                             aum_in.fault)
    /\ UNCHANGED <<aum_in, poolVars, callVars, scrollVars>>

----------------------------------------------------------------------------
(* Calls of the other extractors.  call_in is [fn, ...]: the extractor      *)
(* called and its arguments; call_out is the dict (or value) it leaves.    *)

\* Fund names a record can carry: a name, the empty text of an element
\* without text, and the NA sentinel.
CallFundNames == {<<"H", "d">>, <<>>, NA}

ReturnsHeaderRows ==
    { <<Th(<<>>), Th(<<"1Y">>), Th(<<"3Y">>)>>,
      <<Th(<<>>), Th(<<"1Y">>), Th(<<"10Y">>), Th(<<"All">>)>>,
      <<Th(<<"5Y">>), Th(<<" ", "1Y">>)>> }

\* Rows of a returns table: the three labelled rows (one of them short), a
\* row labelled with the fund name, a category row that names the fund, a
\* row with another label and an empty tr.
ReturnsDataRows ==
    { <<Td(<<"Fund returns">>), Td(<<"1", "%">>), Td(<<"2", "%">>)>>,
      <<Td(<<"Category average">>), Td(<<"2", "%">>)>>,
      <<Td(<<"Rank with in category">>), Td(<<"1">>), Td(<<"2">>),
        Td(<<" ", "1", "2">>)>>,
      <<Td(<<"H", "d">>), Td(<<"2">>), Td(<<"1">>)>>,
      <<Td(<<"Category average", " ", "H", "d">>), Td(<<"1">>), Td(<<"2">>)>>,
      <<Td(<<"x">>), Td(<<"1">>)>>,
      <<>> }

ReturnsTables ==
    {<<h>> \o rows : h \in ReturnsHeaderRows,
                     rows \in SeqsUpTo(ReturnsDataRows, MaxRows + 1)}

ReturnsInput(tables, fund_name) ==
    [fn |-> "returns", tables |-> tables, fund_name |-> fund_name]

ReturnsInputs ==
    { ReturnsInput(<<t>>, n) : t \in ReturnsTables, n \in CallFundNames }
    \cup
    { ReturnsInput(ts, <<"H", "d">>) :
        ts \in { <<>>, <<BenchmarkTable>>,
                 <<BenchmarkTable, ReturnsSampleTable>>,
                 <<RatiosSampleTable, ReturnsSampleTable,
                   << <<Th(<<>>), Th(<<"1Y">>)>>,
                      <<Td(<<"Category average">>), Td(<<"1">>)>> >> >> } }

\* One call of _extract_returns_and_rank on a dict that holds the fund name.
ApplyReturns ==
    /\ call_in.fn = "returns"
    /\ call_out = Pending
    /\ call_out' = ExtractReturnsAndRank(call_in.tables,
                       DictSet(EmptyDict, "Fund Name", call_in.fund_name))
    /\ UNCHANGED <<call_in, aum_in, aum_out, poolVars, scrollVars>>

\* Rows of a ratios table: header and value pairs for the six labels, a
\* label cell alone, a header with two labels and a label in a td.
RatioRows ==
    { <<Th(<<"P/E Ratio">>), Td(<<"2">>)>>,
      <<Td(<<"P/B Ratio">>), Td(<<" ", "1">>)>>,
      <<Th(<<"P/E Ratio">>)>>,
      <<Th(<<"Alpha">>), Td(<<"1">>)>>,
      <<Th(<<"Beta">>), Td(<<"2", " ">>)>>,
      <<Th(<<"Sharpe">>), Td(<<"1", ".", "2">>)>>,
      <<Th(<<"Sortino">>), Td(<<"-">>)>>,
      <<Th(<<"Beta", " ", "Alpha">>), Td(<<"1", "2">>)>>,
      <<Td(<<"Alpha">>), Td(<<"2">>)>> }

RatioInputTables == SeqsUpTo(RatioRows, MaxRows + 1)

RatiosInput(tables) == [fn |-> "ratios", tables |-> tables]

RatiosInputs ==
    { RatiosInput(<<t>>) : t \in RatioInputTables }
    \cup
    { RatiosInput(ts) :
        ts \in { <<>>, <<BenchmarkTable>>, SampleTables,
                 <<RatiosSampleTable,
                   << <<Th(<<"Alpha">>), Td(<<"2">>)>>,
                      <<Th(<<"Beta">>), Td(<<"1">>)>> >> >>,
                 << << <<Th(<<"Alpha">>), Td(<<"2">>)>> >>,
                    << <<Th(<<"Beta">>), Td(<<"1">>)>> >> >> } }

\* One call of _extract_ratios.
ApplyRatios ==
    /\ call_in.fn = "ratios"
    /\ call_out = Pending
    /\ call_out' = ExtractRatios(call_in.tables, EmptyDict)
    /\ UNCHANGED <<call_in, aum_in, aum_out, poolVars, scrollVars>>

\* Heading blocks: an expense ratio with the boilerplate, one with a later
\* colon, one without colon, one with a colon before the label, and an exit
\* load block.
ExpenseHeadings ==
    { [text |-> <<"Expense Ratio", ":", " ", "1", "%", " ",
                  "Inclusive of GST">>,
       h3 |-> PyNone, p |-> PyNone],
      [text |-> <<"Expense Ratio", ":", " ", "1", ":", "2">>,
       h3 |-> PyNone, p |-> PyNone],
      [text |-> <<"Expense Ratio", " ", "2">>, h3 |-> PyNone, p |-> PyNone],
      [text |-> <<"x", ":", "Expense Ratio", " ", "2", "%">>,
       h3 |-> <<"x">>, p |-> PyNone],
      [text |-> <<"Exit load", ":", "1", "%">>, h3 |-> <<"Exit load">>,
       p |-> <<"1", "%", " ">>] }

ExpenseInput(headings) == [fn |-> "expense", headings |-> headings]

ExpenseInputs ==
    {ExpenseInput(h) : h \in SeqsUpTo(ExpenseHeadings, MaxRows)}

\* One call of _extract_expense_and_load.
ApplyExpense ==
    /\ call_in.fn = "expense"
    /\ call_out = Pending
    /\ call_out' = ExtractExpenseAndLoad(call_in.headings, EmptyDict)
    /\ UNCHANGED <<call_in, aum_in, aum_out, poolVars, scrollVars>>

----------------------------------------------------------------------------
(* _scroll_page.  The rendered page answers each read of                   *)
(* document.body.scrollHeight with a height of 1..MaxHeight; `heights`     *)
(* keeps the latest MaxPolls answers.                                      *)

\* _scroll_page is not running.
ScrollIdle == scroll_pc = "idle" /\ last_height = 0 /\ heights = <<>>

\* The heights the page can report at a read.
Heights == 1..MaxHeight

\* `reads` with the answer h, cut to the latest MaxPolls answers.
Record(reads, h) ==
    LET all == Append(reads, h)
    IN  IF Len(all) > MaxPolls THEN Tail(all) ELSE all

\* last_height = execute_script("return document.body.scrollHeight")
ScrollStart ==
    /\ scroll_pc = "start"
    /\ \E h \in Heights :
          /\ last_height' = h
          /\ heights' = Record(heights, h)
    /\ scroll_pc' = "loop"
    /\ UNCHANGED <<aum_in, aum_out, poolVars, callVars>>

\* Whether the loop goes on after reading new_height.
GoesOn(new_height, last) == new_height # last

\* One pass of "while True": scroll to the bottom, sleep, read new_height,
\* break when it equals last_height, else keep it as last_height.
ScrollPoll ==
    /\ scroll_pc = "loop"
    /\ \E new_height \in Heights :
          /\ heights' = Record(heights, new_height)
          /\ IF GoesOn(new_height, last_height)
             THEN /\ last_height' = new_height
                  /\ scroll_pc' = "loop"
             ELSE /\ last_height' = last_height
                  /\ scroll_pc' = "done"
    /\ UNCHANGED <<aum_in, aum_out, poolVars, callVars>>

----------------------------------------------------------------------------
(* Specifications *)

\* main() up to the start of the threads, for a queue `urls` of pages `pg`
\* and the threads `ths`.
Started(ths, urls, pg, chr) ==
    /\ threads = ths
    /\ chrome = chr
    /\ pages = pg
    /\ url_queue = urls
    /\ unfinished = Len(urls)
    /\ pc = [w \in Workers |-> IF w \in ths THEN "start" ELSE "unused"]
    /\ cur = [w \in Workers |-> NoUrl]
    /\ driver = [w \in Workers |-> "none"]
    /\ quit_calls = [w \in Workers |-> 0]
    /\ local_results = [w \in Workers |-> <<>>]
    /\ local_failed = [w \in Workers |-> <<>>]
    /\ put_idx = [w \in Workers |-> 1]
    /\ results_queue = <<>>
    /\ failed_list = <<>>
    /\ main_pc = "joining"
    /\ sheet_writes = <<>>

AllUrls == [i \in 1..NumUrls |-> UrlNames[i]]

\* The pool: every worker started, every url queued.
Init ==
    /\ \E pg \in PoolAssignments, chr \in [Workers -> ChromeKinds] :
          Started(Workers, AllUrls, pg, chr)
    /\ aum_in = NoAumInput
    /\ aum_out = Pending
    /\ call_in = NoCall
    /\ call_out = Pending
    /\ ScrollIdle

Next ==
    \/ \E w \in Workers : Enter(w)
    \/ \E w \in Workers : QueueGet(w)
    \/ \E w \in Workers : Process(w)
    \/ \E w \in Workers : Exit(w)
    \/ \E w \in Workers : PutResult(w)
    \/ \E w \in Workers : ExtendFailed(w)
    \/ JoinAll
    \/ Save

Spec == Init /\ [][Next]_vars

\* One worker and one url, over every page of ItemPages.
InitItem ==
    /\ \E d \in ItemPages, k \in ChromeKinds :
          Started({1}, <<"u1">>, [u \in {"u1"} |-> d], [w \in Workers |-> k])
    /\ aum_in = NoAumInput
    /\ aum_out = Pending
    /\ call_in = NoCall
    /\ call_out = Pending
    /\ ScrollIdle

SpecItem == InitItem /\ [][Next]_vars

\* One call of _extract_aum on every input of AumInputs.
InitAum ==
    /\ Started({}, <<>>, [u \in {} |-> GoodPage], [w \in Workers |-> "ok"])
    /\ aum_in \in AumInputs
    /\ aum_out = Pending
    /\ call_in = NoCall
    /\ call_out = Pending
    /\ ScrollIdle

NextAum == ApplyAum

SpecAum == InitAum /\ [][NextAum]_vars

\* One call of an extractor on every input of CallInputs.
CallInputs == ReturnsInputs \cup RatiosInputs \cup ExpenseInputs

InitCall ==
    /\ Started({}, <<>>, [u \in {} |-> GoodPage], [w \in Workers |-> "ok"])
    /\ aum_in = NoAumInput
    /\ aum_out = Pending
    /\ call_in \in CallInputs
    /\ call_out = Pending
    /\ ScrollIdle

NextCall ==
    \/ ApplyReturns
    \/ ApplyRatios
    \/ ApplyExpense

SpecCall == InitCall /\ [][NextCall]_vars

\* One worker and three urls: the first and the third serve the same page,
\* the second another one.
RepeatUrls == <<UrlNames[1], UrlNames[2], UrlNames[3]>>

InitRepeat ==
    /\ \E d \in ItemPages, e \in {GoodPage, ErrorPage} :
          Started({1}, RepeatUrls,
                  [u \in {RepeatUrls[i] : i \in 1..3} |->
                      IF u = RepeatUrls[2] THEN e ELSE d],
                  [w \in Workers |-> "ok"])
    /\ aum_in = NoAumInput
    /\ aum_out = Pending
    /\ call_in = NoCall
    /\ call_out = Pending
    /\ ScrollIdle

SpecRepeat == InitRepeat /\ [][Next]_vars

\* Fund types of the records main() groups: short ones, two that differ in
\* "/" and "-" only, and two that differ after their 31st character only.
LongType(last) == [i \in 1..SheetNameLimit |-> "x"] \o <<last>>

SaveFundTypes ==
    { <<"d">>, <<"d", "/", "x">>, <<"d", "-", "x">>,
      LongType("1"), LongType("2") }

\* The page of a fund of the given type.
TypedPage(type) == [GoodPage EXCEPT !.pills = << <<"Equity">>, type >>]

\* main() after the join: one worker has processed a url for each fund type
\* of `types` and has put its records on results_queue.
Joined(types) ==
    LET urls == [i \in 1..Len(types) |-> UrlNames[i]]
        pg == [u \in {urls[i] : i \in 1..Len(types)} |->
                  TypedPage(types[CHOOSE i \in 1..Len(types) : urls[i] = u])]
        recs == [i \in 1..Len(types) |-> ScrapeUrl(pg[urls[i]], urls[i]).data]
    IN  /\ threads = {1}
        /\ chrome = [w \in Workers |-> "ok"]
        /\ pages = pg
        /\ url_queue = <<>>
        /\ unfinished = 0
        /\ pc = [w \in Workers |-> IF w = 1 THEN "done" ELSE "unused"]
        /\ cur = [w \in Workers |-> NoUrl]
        /\ driver = [w \in Workers |-> IF w = 1 THEN "closed" ELSE "none"]
        /\ quit_calls = [w \in Workers |-> IF w = 1 THEN 1 ELSE 0]
        /\ local_results = [w \in Workers |-> IF w = 1 THEN recs ELSE <<>>]
        /\ local_failed = [w \in Workers |-> <<>>]
        /\ put_idx = [w \in Workers |-> IF w = 1 THEN Len(recs) + 1 ELSE 1]
        /\ results_queue = recs
        /\ failed_list = <<>>
        /\ main_pc = "joined"
        /\ sheet_writes = <<>>

InitSave ==
    /\ \E types \in SeqsUpTo(SaveFundTypes, NumUrls + 1) : Joined(types)
    /\ aum_in = NoAumInput
    /\ aum_out = Pending
    /\ call_in = NoCall
    /\ call_out = Pending
    /\ ScrollIdle

NextSave == Save

SpecSave == InitSave /\ [][NextSave]_vars

\* Every scrape_url call returns: no worker stays in an item for ever.
ScrapeReturns(w) == []<>(pc[w] # "scrape")

\* The pool under a scheduler that lets every thread that can take a step
\* take one eventually: each worker thread, and main.
Fairness ==
    /\ \A w \in Workers :
          /\ WF_vars(Enter(w) \/ QueueGet(w) \/ Exit(w) \/ PutResult(w)
                        \/ ExtendFailed(w))
          /\ ScrapeReturns(w)
    /\ WF_vars(JoinAll \/ Save)

SpecFair == Spec /\ Fairness

\* One call of _scroll_page, each step of which is eventually taken.
InitScroll ==
    /\ Started({}, <<>>, [u \in {} |-> GoodPage], [w \in Workers |-> "ok"])
    /\ aum_in = NoAumInput
    /\ aum_out = Pending
    /\ call_in = NoCall
    /\ call_out = Pending
    /\ scroll_pc = "start"
    /\ last_height = 0
    /\ heights = <<>>

NextScroll ==
    \/ ScrollStart
    \/ ScrollPoll

SpecScroll == InitScroll /\ [][NextScroll]_vars /\ WF_vars(NextScroll)

----------------------------------------------------------------------------
(* Properties of the worker pool *)

\* The url of a record.
UrlOf(rec) == rec["URL"][1]

\* worker(url_queue, ...) has ended for w: it returned or raised.
WorkerCallEnded(w) == pc[w] \in {"put", "extend", "done", "raised"}

\* The places where url u stands in a worker's two lists.
PlacesInResults(u) ==
    UNION {{<<w, i>> : i \in {j \in 1..Len(local_results[w]) :
                                 UrlOf(local_results[w][j]) = u}} :
           w \in threads}

PlacesInFailed(u) ==
    UNION {{<<w, i>> : i \in {j \in 1..Len(local_failed[w]) :
                                 local_failed[w][j] = u}} :
           w \in threads}

\* The urls main() put on the queue.
QueuedUrls == DOMAIN pages

\* C1: once every worker's call has ended, and the queue was drained by at
\* least one worker that acquired a session, every queued url stands exactly
\* once in the workers' lists taken together: in a results list, as its
\* record, when scrape_url returned a record, and in a failed list otherwise.
C1_EachUrlInExactlyOneList ==
    ((\A w \in threads : WorkerCallEnded(w))
     /\ (\E w \in threads : driver[w] # "none"))
    => \A u \in QueuedUrls :
          /\ Cardinality(PlacesInResults(u)) + Cardinality(PlacesInFailed(u)) = 1
          /\ \A p \in PlacesInResults(u) :
                /\ ScrapeUrl(pages[u], u).kind = "record"
                /\ local_results[p[1]][p[2]] = ScrapeUrl(pages[u], u).data
          /\ PlacesInFailed(u) # {} => ScrapeUrl(pages[u], u).kind # "record"

\* Two workers ended with items of their own, one holding a record and the
\* other a failed url.
C1_Witness ==
    /\ \A w \in threads : WorkerCallEnded(w)
    /\ \E w1, w2 \in threads :
          /\ w1 # w2
          /\ local_results[w1] # <<>>
          /\ local_failed[w2] # <<>>

\* How often x stands in a sequence.
Count(seq, x) == Cardinality({i \in 1..Len(seq) : seq[i] = x})

\* C2: after main has joined every thread, every record of every worker's
\* local_results is in results_queue exactly once and every url of every
\* worker's local_failed is in failed_list exactly once, however the
\* worker's call ended.
C2_MergeKeepsEveryLocalItem ==
    main_pc = "joined"
    => \A w \in threads :
          /\ \A i \in 1..Len(local_results[w]) :
                Count(results_queue, local_results[w][i]) = 1
          /\ \A i \in 1..Len(local_failed[w]) :
                Count(failed_list, local_failed[w][i]) = 1

\* C3: a worker that acquired a session calls driver.quit() exactly once,
\* when its loop has ended: never while it still pulls or processes items,
\* and a worker that has returned holds a closed session.
C3_SessionReleasedExactlyOnce ==
    \A w \in threads :
        /\ quit_calls[w] <= 1
        /\ pc[w] \in {"get", "scrape", "exit"}
              => driver[w] = "open" /\ quit_calls[w] = 0
        /\ (WorkerCallEnded(w) /\ driver[w] # "none") => quit_calls[w] = 1
        /\ quit_calls[w] = 1 => cur[w] = NoUrl /\ WorkerCallEnded(w)
        /\ pc[w] \in {"put", "extend", "done"} => driver[w] = "closed"

\* A worker that processed a record and a failed item has returned and
\* released its session.
C3_Witness ==
    \E w \in threads :
        /\ pc[w] = "done"
        /\ quit_calls[w] = 1
        /\ local_results[w] # <<>>
        /\ local_failed[w] # <<>>

\* The step of worker w that finishes an item on which scrape_url returned
\* None or raised.
FailedItemStep(w) ==
    /\ pc[w] = "scrape"
    /\ pc'[w] # "scrape"
    /\ ScrapeUrl(pages[cur[w]], cur[w]).kind # "record"

\* C4: a failed item adds its url, and nothing else, to the failed list of
\* the worker that pulled it; the records collected so far, the queue and
\* the other workers' lists stay as they are, and the worker goes back to
\* pull the next item with the same open session.  Every record a worker
\* holds is the one its own page yields, whatever happened to other items.
C4_FailureStaysInItsItem ==
    /\ [][\A w \in threads :
            FailedItemStep(w)
            => /\ local_failed' =
                    [local_failed EXCEPT ![w] = Append(@, cur[w])]
               /\ local_results' = local_results
               /\ url_queue' = url_queue
               /\ driver[w] = "open" /\ driver' = driver
               /\ quit_calls' = quit_calls
               /\ pc'[w] = "get"]_vars
    /\ [](\A w \in threads : \A i \in 1..Len(local_results[w]) :
            LET u == UrlOf(local_results[w][i])
            IN  local_results[w][i] = ScrapeUrl(pages[u], u).data)

\* A worker recorded a failed first url and then collected the record of a
\* later one.
C4_Witness ==
    \E w \in threads :
        /\ local_failed[w] = <<UrlNames[1]>>
        /\ local_results[w] # <<>>
        /\ UrlOf(local_results[w][1]) = UrlNames[2]

\* A url is in some worker's results list or failed list.
Collected(u) == PlacesInResults(u) # {} \/ PlacesInFailed(u) # {}

\* C7: when a worker fails to acquire its session, only that worker ends:
\* it has taken nothing from the queue, and once every thread has ended
\* every queued url has been processed by another worker and stands in a
\* results list or a failed list.
C7_NoUrlLostWhenSessionFails ==
    \A w \in threads :
        (pc[w] = "raised" /\ driver[w] = "none")
        => /\ local_results[w] = <<>> /\ local_failed[w] = <<>>
           /\ cur[w] = NoUrl
           /\ main_pc = "joined" => \A u \in QueuedUrls : Collected(u)

----------------------------------------------------------------------------
(* Properties of one item *)

\* The records of the workers' results lists and of results_queue.
EmittedRecords ==
    UNION {{local_results[w][i] : i \in 1..Len(local_results[w])} :
           w \in threads}
    \cup {results_queue[i] : i \in 1..Len(results_queue)}

\* Neither the live element nor the static h1 gives a fund name.
NoNameFound(doc) == doc.live_name = PyNone /\ doc.static_name = PyNone

\* The original statement of C5: an item without a fund name is failed: its
\* url is in the failed list and no record of it is in the results.
C5_NoNameItemIsFailed ==
    \A u \in QueuedUrls :
        (Collected(u) /\ NoNameFound(pages[u]))
        => PlacesInFailed(u) # {} /\ PlacesInResults(u) = {}

\* C5, amended: an item without a fund name gets Fund Name NA and is not
\* failed for that: unless the page load or an extractor raises, its record,
\* with Fund Name NA, is in the results and its url is not in the failed
\* list.
C5_NoNameItemGetsNA ==
    \A u \in QueuedUrls :
        (Collected(u) /\ NoNameFound(pages[u]))
        => IF pages[u].load = "ok" /\ pages[u].fault \notin UnhandledFaults
           THEN /\ PlacesInFailed(u) = {}
                /\ PlacesInResults(u) # {}
                /\ \A p \in PlacesInResults(u) :
                      local_results[p[1]][p[2]]["Fund Name"] = NA
           ELSE PlacesInFailed(u) # {} /\ PlacesInResults(u) = {}

\* The record of a page without a fund name is in the results.
C5_Witness ==
    \E u \in QueuedUrls :
        /\ NoNameFound(pages[u])
        /\ \E p \in PlacesInResults(u) :
              local_results[p[1]][p[2]]["Fund Name"] = NA

\* The fields of the group an extractor fills.
GroupKeys(fault) ==
    CASE fault \in AumFaults -> {"AUM"}
      [] fault = "expense" -> {"Expense Ratio", "Exit Load"}
      [] fault = "benchmark" -> {"Benchmark"}
      [] fault = "returns" ->
            {"1Y Fund Return", "1Y Category Avg", "1Y Rank",
             "3Y Fund Return", "3Y Category Avg", "3Y Rank",
             "5Y Fund Return", "5Y Category Avg", "5Y Rank",
             "All Fund Return", "All Category Avg", "All Rank"}
      [] fault = "ratios" ->
            {"P/E Ratio", "P/B Ratio", "Alpha", "Beta", "Sharpe", "Sortino"}
      [] fault = "managers" -> {"Fund Managers"}
      [] OTHER -> {}

\* C6: when one extractor raises mid-parse a record is still returned for
\* the item; the fields of the other groups are those the page yields
\* without the exception and the fields of the failing group are NA (AUM
\* may still come from the AUM strategy that did not raise).
C6_ExtractorFaultIsolated ==
    \A u \in QueuedUrls :
        (Collected(u) /\ pages[u].load = "ok" /\ pages[u].fault # "none")
        => /\ PlacesInResults(u) # {}
           /\ \A p \in PlacesInResults(u) :
                 LET rec == local_results[p[1]][p[2]]
                     clean == ScrapeUrl([pages[u] EXCEPT !.fault = "none"],
                                        u).data
                 IN  \A k \in Columns :
                        \/ rec[k] = clean[k] /\ k \notin GroupKeys(pages[u].fault)
                        \/ rec[k] = NA /\ k \in GroupKeys(pages[u].fault)
                        \/ k = "AUM"

\* Every cell text of the page's tables.
CellTexts(doc) ==
    UNION {UNION {{doc.tables[t][r][c].text : c \in 1..Len(doc.tables[t][r])} :
                  r \in 1..Len(doc.tables[t])} :
           t \in 1..Len(doc.tables)}

\* No table cell of the page holds the label.
NoCellHas(doc, label) == \A c \in CellTexts(doc) : ~Contains(c, <<label>>)

\* The fields whose source data the page lacks.
AbsentFields(doc) ==
    {k \in Columns :
        \/ k = "Fund Name" /\ NoNameFound(doc)
        \/ k = "Fund Type" /\ Len(doc.pills) < 2
        \/ k = "AUM" /\ doc.live = <<>>
              /\ NoCellHas(doc, "Fund Size") /\ NoCellHas(doc, "Fund size")
        \/ k = "Benchmark" /\ NoCellHas(doc, "Fund benchmark")
        \/ \E i \in 1..Len(Periods) :
              /\ k \in {Periods[i] \o " Fund Return",
                        Periods[i] \o " Category Avg", Periods[i] \o " Rank"}
              /\ NoCellHas(doc, Periods[i])
        \/ k \in {"P/E Ratio", "P/B Ratio", "Alpha", "Beta", "Sharpe",
                  "Sortino"} /\ NoCellHas(doc, k)
        \/ k = "Expense Ratio"
              /\ \A i \in 1..Len(doc.headings) :
                    ~Contains(doc.headings[i].text, <<"Expense Ratio">>)
        \/ k = "Exit Load"
              /\ \A i \in 1..Len(doc.headings) :
                    ~Contains(doc.headings[i].text, <<"Exit load">>)}

\* C8: every record that reaches the results has exactly the fixed key set;
\* no field is None; a field whose source data the page lacks is NA, and
\* Fund Managers is the empty string when the page has no manager card.
C8_RecordHasFullSchema ==
    \A rec \in EmittedRecords :
        LET doc == pages[UrlOf(rec)]
        IN  /\ DOMAIN rec = Columns
            /\ \A k \in Columns : rec[k] # PyNone
            /\ \A k \in AbsentFields(doc) : rec[k] = NA
            /\ doc.managers = <<>> => rec["Fund Managers"] = <<>>
            /\ rec["Fund Managers"] # NA

\* A record of a page that lacks every field group has reached the results.
C8_Witness ==
    \E rec \in EmittedRecords :
        /\ Cardinality(AbsentFields(pages[UrlOf(rec)])) = 24
        /\ pages[UrlOf(rec)].managers = <<>>
        /\ rec["Fund Managers"] = <<>>
        /\ rec["AUM"] = NA

----------------------------------------------------------------------------
(* Properties of _extract_aum *)

\* The call of _extract_aum has returned.
AumReturned == aum_out # Pending

\* The tables the table search reads rows of: those holding the label whose
\* headers hold it too, but for the first labelled table when parsing it
\* raises.
SearchedTables(in) ==
    LET labelled == {t \in 1..Len(in.tables) :
                        FundSizeLabelIn(TableText(in.tables[t]))}
    IN  {t \in labelled :
            /\ FundSizeIdx(TableHeaders(in.tables[t])) # 0
            /\ in.fault = "aum_table" => \E s \in labelled : s < t}

\* Row r of table t matches the fund name both ways round.
RowNamed(in, t, r) ==
    LET row == in.tables[t][r]
        idx == FundSizeIdx(TableHeaders(in.tables[t]))
    IN  /\ row # <<>>
        /\ Len(row) >= idx
        /\ LET a == RemoveSpaces(Lower(Strip(row[1].text)))
               b == RemoveSpaces(Lower(in.fund_name))
           IN  Contains(a, b) \/ Contains(b, a)

\* The stripped text of the fund-size cell of row r of table t.
FundSizeCell(in, t, r) ==
    Strip(in.tables[t][r][FundSizeIdx(TableHeaders(in.tables[t]))].text)

\* The rows the table search accepts, as <<table, row>>.
AcceptedRows(in) ==
    {p \in UNION {{<<t, r>> : r \in 1..Len(in.tables[t])} :
                  t \in SearchedTables(in)} :
        /\ RowNamed(in, p[1], p[2])
        /\ \E i \in 1..Len(FundSizeCell(in, p[1], p[2])) :
              FundSizeCell(in, p[1], p[2])[i] \in Digits}

Before(p, q) == p[1] < q[1] \/ (p[1] = q[1] /\ p[2] < q[2])

\* C9: the table search returns the stripped text of the fund-size cell of
\* the first row, in document order, whose first cell and the fund name
\* contain one another after lowercasing and removing spaces and whose
\* fund-size cell holds a digit; a matching row without a digit is passed
\* over, and when no row is accepted the result is that of the scan of the
\* live document, or NA.
C9_TableStrategyFirstAcceptedRow ==
    AumReturned =>
        IF AcceptedRows(aum_in) # {}
        THEN \E p \in AcceptedRows(aum_in) :
                /\ \A q \in AcceptedRows(aum_in) : q = p \/ Before(p, q)
                /\ aum_out = FundSizeCell(aum_in, p[1], p[2])
        ELSE \/ aum_out = NA
             \/ /\ aum_in.fault # "aum_scan"
                /\ aum_out = TextScan(aum_in.live)

\* The call has returned the cell of a row that follows a matching row
\* whose fund-size cell has no digit.
C9_Witness ==
    /\ AumReturned
    /\ \E p \in AcceptedRows(aum_in) :
          /\ aum_out = FundSizeCell(aum_in, p[1], p[2])
          /\ \E r \in 1..(p[2] - 1) :
                /\ RowNamed(aum_in, p[1], r)
                /\ <<p[1], r>> \notin AcceptedRows(aum_in)
          /\ aum_out # aum_in.tables[p[1]][p[2]]
                            [FundSizeIdx(TableHeaders(aum_in.tables[p[1]]))].text

\* The candidate texts of the live elements, in the order the scan reads
\* them, without the empty ones.
RECURSIVE Candidates(_)
Candidates(elems) ==
    IF elems = <<>> THEN <<>>
    ELSE SelectSeq(TextsToCheck(Head(elems)),
                   LAMBDA t : t # PyNone /\ t # <<>>)
         \o Candidates(Tail(elems))

\* Everything of the normalised text that follows its first label.
AfterLabel(text) ==
    LET norm_text == Replace(Replace(Lower(text), "\n", <<" ">>), "\r", <<>>)
        i == IndexFrom(norm_text, "fund size", 1)
    IN  IF i = 0 THEN <<>> ELSE SubSeq(norm_text, i + 1, Len(norm_text))

\* The candidate has a currency-and-unit match after the label.
HasAumAfterLabel(text) == SearchFrom(AfterLabel(text), 1) # <<>>

\* C10: when the table search yields nothing, the first candidate text, in
\* the order read, that has a currency-and-unit match after the label gives
\* the result: the match without the currency sign, the unit and the
\* surrounding whitespace.
C10_FirstCandidateWithMatchWins ==
    (/\ AumReturned
     /\ aum_in.fault = "none"
     /\ AcceptedRows(aum_in) = {})
    => LET cands == Candidates(aum_in.live)
       IN  \A i \in 1..Len(cands) :
              (/\ HasAumAfterLabel(cands[i])
               /\ \A j \in 1..(i - 1) : ~HasAumAfterLabel(cands[j]))
              => LET m == SearchFrom(AfterLabel(cands[i]), 1)
                 IN  aum_out = CleanAum(SubSeq(AfterLabel(cands[i]),
                                               m[1], m[2]))

----------------------------------------------------------------------------
(* Properties of _extract_returns_and_rank *)

\* The extractor call of call_in has returned.
Returned(fn) == call_in.fn = fn /\ call_out # Pending

\* The table _extract_returns_and_rank reads: the first whose text has one
\* of the two labels, <<>> when there is none.
ReadTable(tables) ==
    LET at == {t \in 1..Len(tables) : IsReturnsTable(tables[t])}
    IN  IF at = {} THEN <<>>
        ELSE tables[CHOOSE t \in at : \A u \in at : t <= u]

\* The cells of `table` for a bucket and a period, as <<row, column>>: rows
\* of the bucket, columns past the first whose header is the period.
BucketCells(table, bucket, period, fund_name) ==
    LET headers == TableHeaders(table)
    IN  {p \in (1..Len(table)) \X (2..Len(headers)) :
            /\ table[p[1]] # <<>>
            /\ RowBucket(Strip(table[p[1]][1].text), fund_name) = bucket
            /\ p[2] <= Len(table[p[1]])
            /\ headers[p[2]] = <<period>>}

\* The value of a bucket for a period: the cell of the last row of the
\* bucket (and its last column under that header), NA when there is none.
BucketValue(table, bucket, period, fund_name) ==
    LET cells == BucketCells(table, bucket, period, fund_name)
    IN  IF table = <<>> \/ cells = {} THEN NA
        ELSE LET p == CHOOSE c \in cells : \A q \in cells : q = c \/ Before(q, c)
             IN  Strip(table[p[1]][p[2]].text)

ReturnFields ==
    {Periods[i] \o suffix : i \in 1..Len(Periods),
                            suffix \in {" Fund Return", " Category Avg", " Rank"}}

\* C11: _extract_returns_and_rank writes exactly the 12 fields of the
\* periods 1Y, 3Y, 5Y and All; each holds the cell of its bucket's row in
\* the column under that period's header; other periods of the table give
\* no field; a period or a bucket the table lacks, or no table, gives NA.
C11_ReturnsWritesTwelveFields ==
    Returned("returns") =>
        LET table == ReadTable(call_in.tables)
            name == call_in.fund_name
        IN  /\ DOMAIN call_out = ReturnFields \cup {"Fund Name"}
            /\ Cardinality(ReturnFields) = 12
            /\ \A i \in 1..Len(Periods) :
                  /\ call_out[Periods[i] \o " Fund Return"] =
                        BucketValue(table, "fund_returns", Periods[i], name)
                  /\ call_out[Periods[i] \o " Category Avg"] =
                        BucketValue(table, "category_averages", Periods[i],
                                    name)
                  /\ call_out[Periods[i] \o " Rank"] =
                        BucketValue(table, "rank_within_category", Periods[i],
                                    name)

\* The call has returned for a table that has a period outside the four, a
\* period of the four, and a row too short for one of its headers.
C11_Witness ==
    /\ Returned("returns")
    /\ \E t \in 1..Len(call_in.tables) :
          /\ call_in.tables[t] = ReadTable(call_in.tables)
          /\ \E i \in 1..Len(TableHeaders(call_in.tables[t])) :
                TableHeaders(call_in.tables[t])[i] = <<"10Y">>
    /\ call_out["1Y Fund Return"] = <<"1", "%">>
    /\ call_out["All Rank"] = <<"1", "2">>
    /\ call_out["All Fund Return"] = NA
    /\ call_out["5Y Rank"] = NA

----------------------------------------------------------------------------
(* Properties of _extract_ratios *)

StatLabels == <<"Alpha", "Beta", "Sharpe", "Sortino">>

\* The label a stats header is read as: the first of StatLabels it holds.
StatLabelOf(h_text, i) ==
    /\ Contains(h_text, <<StatLabels[i]>>)
    /\ \A j \in 1..(i - 1) : ~Contains(h_text, <<StatLabels[j]>>)

\* Rows, as <<table, row>>, that pair a header cell read as StatLabels[i]
\* with a value cell, in the tables whose text has "Alpha" and "Beta".
StatCells(tables, i) ==
    {p \in UNION {{<<t, r>> : r \in 1..Len(tables[t])} : t \in 1..Len(tables)} :
        LET row == tables[p[1]][p[2]]
            text == TableText(tables[p[1]])
        IN  /\ Contains(text, <<"Alpha">>) /\ Contains(text, <<"Beta">>)
            /\ \E c \in 1..Len(row) : row[c].tag = "th"
            /\ \E c \in 1..Len(row) : row[c].tag = "td"
            /\ StatLabelOf(Strip(RowFind(row, "th")), i)}

\* Rows with at least two cells whose first cell has the label, in the
\* tables whose text has "P/E Ratio"; "P/E Ratio" is looked for first.
PriceCells(tables, label) ==
    {p \in UNION {{<<t, r>> : r \in 1..Len(tables[t])} : t \in 1..Len(tables)} :
        LET row == tables[p[1]][p[2]]
        IN  /\ Contains(TableText(tables[p[1]]), <<"P/E Ratio">>)
            /\ Len(row) >= 2
            /\ Contains(Strip(row[1].text), <<label>>)
            /\ label = "P/B Ratio"
                  => ~Contains(Strip(row[1].text), <<"P/E Ratio">>)}

Last(cells) == CHOOSE c \in cells : \A q \in cells : q = c \/ Before(q, c)

\* C12: Alpha, Beta, Sharpe and Sortino are the value cell paired with a
\* header cell read as that label, only in tables whose text has both
\* "Alpha" and "Beta"; P/E Ratio and P/B Ratio come from rows of at least
\* two cells in tables whose text has "P/E Ratio"; each of the six fields
\* is NA when no row matches it, whatever the other five are.
C12_RatiosByLabel ==
    Returned("ratios") =>
        /\ DOMAIN call_out = {RatioKeys[i] : i \in 1..Len(RatioKeys)}
        /\ \A i \in 1..Len(StatLabels) :
              LET cells == StatCells(call_in.tables, i)
              IN  call_out[StatLabels[i]] =
                     IF cells = {} THEN NA
                     ELSE Strip(RowFind(call_in.tables[Last(cells)[1]]
                                                      [Last(cells)[2]], "td"))
        /\ \A label \in {"P/E Ratio", "P/B Ratio"} :
              LET cells == PriceCells(call_in.tables, label)
              IN  call_out[label] =
                     IF cells = {} THEN NA
                     ELSE Strip(call_in.tables[Last(cells)[1]]
                                              [Last(cells)[2]][2].text)

\* The call has returned with Beta and P/B Ratio found and the other four
\* fields NA, Alpha being in the table without a header cell.
C12_Witness ==
    /\ Returned("ratios")
    /\ call_out["Beta"] = <<"2">>
    /\ call_out["Sortino"] = <<"-">>
    /\ \E t \in 1..Len(call_in.tables) :
          \E r \in 1..Len(call_in.tables[t]) :
             call_in.tables[t][r] = <<Td(<<"Alpha">>), Td(<<"2">>)>>
    /\ \A k \in {"Alpha", "Sharpe", "P/E Ratio", "P/B Ratio"} :
          call_out[k] = NA

----------------------------------------------------------------------------
(* Properties of record assembly across items *)

----------------------------------------------------------------------------
(* Properties of the aggregation of main() *)

\* The places, <<write, row>>, where a record stands in the sheets written.
PlacesInSheets(rec) ==
    UNION {{<<i, j>> : j \in {r \in 1..Len(sheet_writes[i].rows) :
                                 sheet_writes[i].rows[r] = rec}} :
           i \in 1..Len(sheet_writes)}

\* C14: once main() has saved, every collected record stands in exactly one
\* sheet; the sheets are the groups of equal Fund Type, each named by the
\* first 31 characters of its Fund Type with "/" replaced by "-"; no two
\* groups are written to the same sheet name.
C14_EachGroupInItsOwnSheet ==
    main_pc = "saved" =>
        /\ \A rec \in EmittedRecords : Cardinality(PlacesInSheets(rec)) = 1
        /\ \A i \in 1..Len(sheet_writes) :
              /\ \A j \in 1..Len(sheet_writes[i].rows) :
                    sheet_writes[i].rows[j]["Fund Type"]
                        = sheet_writes[i].fund_type
              /\ sheet_writes[i].sheet_name
                    = Replace(Take(sheet_writes[i].fund_type, 31), "/",
                              <<"-">>)
        /\ \A i, j \in 1..Len(sheet_writes) :
              i # j => /\ sheet_writes[i].fund_type # sheet_writes[j].fund_type
                       /\ sheet_writes[i].sheet_name
                             # sheet_writes[j].sheet_name

----------------------------------------------------------------------------
(* Order of the two strategies of _extract_aum *)

\* What the scan of the live document yields when it is run: PyNone when it
\* finds nothing or the live query raises.
ScanYield(in) == IF in.fault = "aum_scan" THEN PyNone ELSE TextScan(in.live)

\* C15: when the table search accepts a row its value is returned whatever
\* the live document holds and whether or not querying it would raise; the
\* scan decides only when the table search has yielded nothing, a table
\* that raised included; the result is NA exactly when both yield nothing.
C15_TableSearchBeforeScan ==
    AumReturned =>
        /\ AcceptedRows(aum_in) # {}
              => \A live \in {<<>>, aum_in.live, <<FundSizeElem>>},
                    f \in {"none", "aum_scan"} :
                    aum_out = ExtractAum(aum_in.tables, aum_in.fund_name, live,
                                         IF aum_in.fault = "aum_table"
                                         THEN "aum_table" ELSE f)
        /\ (AcceptedRows(aum_in) = {} /\ ScanYield(aum_in) # PyNone)
              => aum_out = ScanYield(aum_in)
        /\ aum_out = NA
              <=> (AcceptedRows(aum_in) = {} /\ ScanYield(aum_in) = PyNone)

\* The call has returned the value of a table row although the scan of the
\* live document would yield another value.
C15_Witness ==
    /\ AumReturned
    /\ AcceptedRows(aum_in) # {}
    /\ TextScan(aum_in.live) # PyNone
    /\ TextScan(aum_in.live) # aum_out

----------------------------------------------------------------------------
(* The tables the table search of _extract_aum reads *)

\* The tables whose text holds the label.
LabelledTables(in) ==
    {t \in 1..Len(in.tables) : FundSizeLabelIn(TableText(in.tables[t]))}

\* What the call returns when the table search yields nothing.
FallbackResult(in) == IF ScanYield(in) = PyNone THEN NA ELSE ScanYield(in)

\* The original statement of C16: only the first table whose text holds the
\* label is examined; when it has no fund-size header or no accepted row
\* the scan decides the result, and no later table supplies the value.
C16_OnlyFirstLabelledTable ==
    (AumReturned /\ aum_in.fault = "none" /\ LabelledTables(aum_in) # {})
    => LET first == CHOOSE t \in LabelledTables(aum_in) :
                       \A u \in LabelledTables(aum_in) : t <= u
           rows == {p \in AcceptedRows(aum_in) : p[1] = first}
       IN  IF rows = {} THEN aum_out = FallbackResult(aum_in)
           ELSE \E p \in rows :
                   /\ \A q \in rows : p[2] <= q[2]
                   /\ aum_out = FundSizeCell(aum_in, first, p[2])

\* C16, amended: every table whose text holds the label is examined, in
\* document order; the first of them that has an accepted row supplies the
\* value, and the scan decides only when none of them has one.
C16_FirstLabelledTableWithAcceptedRow ==
    AumReturned =>
        LET with_row == {p[1] : p \in AcceptedRows(aum_in)}
        IN  IF with_row = {} THEN aum_out = FallbackResult(aum_in)
            ELSE \E t \in with_row :
                    /\ \A u \in with_row : t <= u
                    /\ t \in LabelledTables(aum_in)
                    /\ aum_out = TableValue(aum_in.tables[t],
                                            aum_in.fund_name)

\* The call has returned the value of a labelled table that follows a
\* labelled table without an accepted row.
C16_Witness ==
    /\ AumReturned
    /\ aum_in.fault = "none"
    /\ \E t \in {p[1] : p \in AcceptedRows(aum_in)} :
          /\ \A p \in AcceptedRows(aum_in) : t <= p[1]
          /\ \E s \in LabelledTables(aum_in) : s < t
          /\ aum_out = TableValue(aum_in.tables[t], aum_in.fund_name)
          /\ aum_out # FallbackResult(aum_in)

----------------------------------------------------------------------------
(* Row classification of _extract_returns_and_rank *)

\* The bucket of a row by its first cell: fund returns only for the label
\* "Fund returns" or a cell that is the fund's name.
BucketByEquality(label, fund_name) ==
    IF Contains(label, <<"Fund returns">>) \/ label = fund_name
    THEN "fund_returns"
    ELSE IF Contains(label, <<"Category average">>) THEN "category_averages"
    ELSE IF Contains(label, <<"Rank with in category">>)
    THEN "rank_within_category"
    ELSE "none"

\* BucketValue for the classification above.
ValueByEquality(table, bucket, period, fund_name) ==
    LET headers == TableHeaders(table)
        cells == {p \in (1..Len(table)) \X (2..Len(headers)) :
                     /\ table[p[1]] # <<>>
                     /\ BucketByEquality(Strip(table[p[1]][1].text), fund_name)
                           = bucket
                     /\ p[2] <= Len(table[p[1]])
                     /\ headers[p[2]] = <<period>>}
    IN  IF table = <<>> \/ cells = {} THEN NA
        ELSE Strip(table[Last(cells)[1]][Last(cells)[2]].text)

\* C17: a row is recorded as fund returns only if its first cell has "Fund
\* returns" or is the fund's name; a row whose first cell has "Category
\* average" is recorded as category average, one with "Rank with in
\* category" as rank, for every fund name, the empty one and NA included.
C17_RowsClassifiedByLabel ==
    Returned("returns") =>
        LET table == ReadTable(call_in.tables)
            name == call_in.fund_name
        IN  \A i \in 1..Len(Periods) :
               /\ call_out[Periods[i] \o " Fund Return"] =
                     ValueByEquality(table, "fund_returns", Periods[i], name)
               /\ call_out[Periods[i] \o " Category Avg"] =
                     ValueByEquality(table, "category_averages", Periods[i],
                                     name)
               /\ call_out[Periods[i] \o " Rank"] =
                     ValueByEquality(table, "rank_within_category",
                                     Periods[i], name)

----------------------------------------------------------------------------
(* Properties of _extract_expense_and_load *)

\* A heading block whose text has "Expense Ratio" and a colon.
IsExpenseBlock(div) ==
    Contains(div.text, <<"Expense Ratio">>) /\ Contains(div.text, <<":">>)

\* Everything after the first colon of the text, without the boilerplate,
\* trimmed.
AfterFirstColon(text) ==
    Strip(Replace(SubSeq(text, IndexFrom(text, ":", 1) + 1, Len(text)),
                  "Inclusive of GST", <<>>))

\* C18: Expense Ratio is, for a heading block whose text has "Expense
\* Ratio" and a colon, everything after the first colon, later colons
\* included, without "Inclusive of GST" and trimmed; NA when there is no
\* such block.
C18_ExpenseAfterFirstColon ==
    Returned("expense") =>
        LET blocks == {i \in 1..Len(call_in.headings) :
                          IsExpenseBlock(call_in.headings[i])}
        IN  IF blocks = {} THEN call_out["Expense Ratio"] = NA
            ELSE \E i \in blocks :
                    call_out["Expense Ratio"]
                        = AfterFirstColon(call_in.headings[i].text)

----------------------------------------------------------------------------
(* Fund Name of a record *)

----------------------------------------------------------------------------
(* Termination of the pool *)

\* Every thread main() started has ended.
AllEnded == \A w \in threads : Ended(w)

\* Every worker ends and the join of main() completes.
PoolTerminates == <>(AllEnded /\ main_pc # "joining")

\* C20: every worker eventually leaves its loop and main's join completes;
\* no worker waits at the queue; and when all workers have exited the work
\* queue is empty.
C20_WorkersEndWithQueueEmpty ==
    /\ PoolTerminates
    /\ [](\A w \in threads : pc[w] = "get" => ENABLED QueueGet(w))
    /\ [](AllEnded => url_queue = <<>>)

----------------------------------------------------------------------------
(* Properties of _scroll_page *)

\* Two reads in a row gave the same height at position i of `heights`.
SameAsBefore(i) == heights[i] = heights[i - 1]

\* _scroll_page returns at the first read that repeats the read before it,
\* and never before.
ReturnsAtFirstRepeat ==
    /\ scroll_pc = "done"
          => /\ Len(heights) >= 2
             /\ SameAsBefore(Len(heights))
             /\ \A i \in 2..(Len(heights) - 1) : ~SameAsBefore(i)
    /\ scroll_pc = "loop"
          => /\ heights # <<>>
             /\ last_height = heights[Len(heights)]
             /\ \A i \in 2..Len(heights) : ~SameAsBefore(i)

\* C21: _scroll_page returns exactly at the first poll whose height equals
\* the read before it, never before, and for every sequence of heights the
\* page reports it eventually returns.
C21_ScrollSettlesAndReturns ==
    /\ []ReturnsAtFirstRepeat
    /\ <>(scroll_pc = "done")

====
